---------------------------- MODULE Spec2Model ----------------------------
(***************************************************************************)
(* Three creational-pattern demonstrations of src/main.cpp as state        *)
(* machines: the Builder demo (Pizza, PizzaBuilder, Cook), the Factory     *)
(* Method demo (Document, Application) and the Abstract Factory demo       *)
(* (Shape, Factory).  Each demo has its own next-state relation; the demos *)
(* share no state.  The client of every class is an arbitrary caller: it   *)
(* may call the public operations in any order, main() being one such run. *)
(***************************************************************************)
EXTENDS Integers, Sequences, FiniteSets, TLC

(***************************************************************************)
(* Bounds of the exploration.                                              *)
(***************************************************************************)
\* Pizzas allocated over a run.
MaxPizzas == 5

\* The null pointer / empty unique_ptr; heap objects are numbered from 1.
NULL == 0

(***************************************************************************)
(* BUILDER DEMO                                                            *)
(***************************************************************************)

\* The PizzaBuilder objects of a run: two HawaiianPizzaBuilder, one
\* SpicyPizzaBuilder.  main() declares one of each.
Builders == {"hawaiianPizzaBuilder", "hawaiianPizzaBuilder2", "spicyPizzaBuilder"}

\* The dynamic type of each builder object.
ClassOf(pb) ==
    IF pb = "spicyPizzaBuilder" THEN "SpicyPizzaBuilder" ELSE "HawaiianPizzaBuilder"

\* Value of a pointer that was never initialised (Cook has no constructor).
Indeterminate == "indeterminate"

\* A pointer value that designates no object.
Wild == "wild"

VARIABLES
    pizzaHeap,       \* every Pizza ever allocated, by allocation order
    m_pizza,         \* PizzaBuilder::m_pizza of each builder: a heap index or NULL
    m_pizzaBuilder,  \* Cook::m_pizzaBuilder
    cookPc,          \* position of the caller inside Cook::makePizza, or "idle"
    steps,           \* builder steps run so far by the latest makePizza call
    cookOut,         \* the line printed by the latest Cook::openPizza
    lastCall         \* history: the latest makePizza call, its argument and what
                     \* the Cook and that builder held when it was made

builderVars ==
    <<pizzaHeap, m_pizza, m_pizzaBuilder, cookPc, steps, cookOut, lastCall>>

\* A default-constructed Pizza: three empty std::string members.
Pizza == [m_dough |-> "", m_sauce |-> "", m_topping |-> "", live |-> TRUE]

\* Pizza::setDough / setSauce / setTopping on heap object p.
setDough(heap, p, dough) == [heap EXCEPT ![p].m_dough = dough]

setSauce(heap, p, sauce) == [heap EXCEPT ![p].m_sauce = sauce]

setTopping(heap, p, topping) == [heap EXCEPT ![p].m_topping = topping]

\* Pizza::open: the printed line, as the sequence of pieces streamed to cout.
open(heap, p) ==
    <<"Pizza with ", heap[p].m_dough, " dough, ", heap[p].m_sauce, " sauce and ",
      heap[p].m_topping, " topping. Mmm.">>

\* PizzaBuilder::getPizza.
getPizza(pb) == m_pizza[pb]

\* ~unique_ptr / unique_ptr move assignment deleting the pizza it held.
destroy(heap, p) == IF p = NULL THEN heap ELSE [heap EXCEPT ![p].live = FALSE]

\* Mutation: the builder keeps the Pizza it already holds and only allocates
\* when it holds none.
createNewPizzaProduct_reuse(pb) ==
    IF m_pizza[pb] = NULL
    THEN /\ pizzaHeap' = Append(pizzaHeap, Pizza)
         /\ m_pizza' = [m_pizza EXCEPT ![pb] = Len(pizzaHeap) + 1]
    ELSE /\ pizzaHeap' = [pizzaHeap EXCEPT ![m_pizza[pb]] = Pizza]
         /\ m_pizza' = m_pizza

\* PizzaBuilder::createNewPizzaProduct: make_unique allocates a fresh Pizza,
\* the move assignment then deletes the one held before.
createNewPizzaProduct(pb) ==
    /\ pizzaHeap' = destroy(Append(pizzaHeap, Pizza), m_pizza[pb])
    /\ m_pizza' = [m_pizza EXCEPT ![pb] = Len(pizzaHeap) + 1]

\* The literals of the two concrete builders.
HawaiianPizzaBuilder_buildDough(heap, p) == setDough(heap, p, "cross")

HawaiianPizzaBuilder_buildSauce(heap, p) == setSauce(heap, p, "mild")

HawaiianPizzaBuilder_buildTopping(heap, p) == setTopping(heap, p, "ham+pineapple")

SpicyPizzaBuilder_buildDough(heap, p) == setDough(heap, p, "pan baked")

\* Mutation: the spicy builder uses the Hawaiian sauce literal.
SpicyPizzaBuilder_buildSauce_mild(heap, p) == setSauce(heap, p, "mild")

SpicyPizzaBuilder_buildSauce(heap, p) == setSauce(heap, p, "hot")

SpicyPizzaBuilder_buildTopping(heap, p) == setTopping(heap, p, "pepperoni+salami")

\* Virtual dispatch of the three pure virtual build steps on builder pb.
buildDough(pb, heap) ==
    IF ClassOf(pb) = "HawaiianPizzaBuilder"
    THEN HawaiianPizzaBuilder_buildDough(heap, m_pizza[pb])
    ELSE SpicyPizzaBuilder_buildDough(heap, m_pizza[pb])

buildSauce(pb, heap) ==
    IF ClassOf(pb) = "HawaiianPizzaBuilder"
    THEN HawaiianPizzaBuilder_buildSauce(heap, m_pizza[pb])
    ELSE SpicyPizzaBuilder_buildSauce(heap, m_pizza[pb])

buildTopping(pb, heap) ==
    IF ClassOf(pb) = "HawaiianPizzaBuilder"
    THEN HawaiianPizzaBuilder_buildTopping(heap, m_pizza[pb])
    ELSE SpicyPizzaBuilder_buildTopping(heap, m_pizza[pb])

\* Mutation: the sauce is built before the dough.
makePizzaNext_swapped(pc) ==
    CASE pc = "createNewPizzaProduct" -> "buildSauce"
      [] pc = "buildSauce" -> "buildDough"
      [] pc = "buildDough" -> "buildTopping"
      [] pc = "buildTopping" -> "idle"

\* The statement of Cook::makePizza that follows statement pc.
makePizzaNext(pc) ==
    CASE pc = "createNewPizzaProduct" -> "buildDough"
      [] pc = "buildDough" -> "buildSauce"
      [] pc = "buildSauce" -> "buildTopping"
      [] pc = "buildTopping" -> "idle"

\* Cook::makePizza(pb), entry: m_pizzaBuilder = pb.
MakePizza(pb) ==
    /\ cookPc = "idle"
    /\ Len(pizzaHeap) < MaxPizzas
    /\ m_pizzaBuilder' = pb
    /\ cookPc' = "createNewPizzaProduct"
    /\ steps' = <<>>
    /\ lastCall' = [pb |-> pb, prevBuilder |-> m_pizzaBuilder, prevPizza |-> m_pizza[pb]]
    /\ UNCHANGED <<pizzaHeap, m_pizza, cookOut>>

\* Cook::makePizza: m_pizzaBuilder->createNewPizzaProduct().
MakePizza_create ==
    /\ cookPc = "createNewPizzaProduct"
    /\ createNewPizzaProduct(m_pizzaBuilder)
    /\ steps' = Append(steps, "createNewPizzaProduct")
    /\ cookPc' = makePizzaNext(cookPc)
    /\ UNCHANGED <<m_pizzaBuilder, cookOut, lastCall>>

\* Cook::makePizza: m_pizzaBuilder->buildDough(), that is m_pizza->setDough(..).
\* With an empty m_pizza the call dereferences a null pointer: the run ends
\* there or the store is lost.
MakePizza_dough ==
    /\ cookPc = "buildDough"
    /\ steps' = Append(steps, "buildDough")
    /\ IF m_pizza[m_pizzaBuilder] = NULL
       THEN /\ cookPc' \in {"crashed", makePizzaNext(cookPc)}
            /\ UNCHANGED pizzaHeap
       ELSE /\ pizzaHeap' = buildDough(m_pizzaBuilder, pizzaHeap)
            /\ cookPc' = makePizzaNext(cookPc)
    /\ UNCHANGED <<m_pizza, m_pizzaBuilder, cookOut, lastCall>>

\* Cook::makePizza: m_pizzaBuilder->buildSauce().
MakePizza_sauce ==
    /\ cookPc = "buildSauce"
    /\ steps' = Append(steps, "buildSauce")
    /\ IF m_pizza[m_pizzaBuilder] = NULL
       THEN /\ cookPc' \in {"crashed", makePizzaNext(cookPc)}
            /\ UNCHANGED pizzaHeap
       ELSE /\ pizzaHeap' = buildSauce(m_pizzaBuilder, pizzaHeap)
            /\ cookPc' = makePizzaNext(cookPc)
    /\ UNCHANGED <<m_pizza, m_pizzaBuilder, cookOut, lastCall>>

\* Cook::makePizza: m_pizzaBuilder->buildTopping().
MakePizza_topping ==
    /\ cookPc = "buildTopping"
    /\ steps' = Append(steps, "buildTopping")
    /\ IF m_pizza[m_pizzaBuilder] = NULL
       THEN /\ cookPc' \in {"crashed", makePizzaNext(cookPc)}
            /\ UNCHANGED pizzaHeap
       ELSE /\ pizzaHeap' = buildTopping(m_pizzaBuilder, pizzaHeap)
            /\ cookPc' = makePizzaNext(cookPc)
    /\ UNCHANGED <<m_pizza, m_pizzaBuilder, cookOut, lastCall>>

\* What an output line may hold when the program reads through a pointer that
\* designates no Pizza.
Garbage == <<"garbage">>

\* Mutation: openPizza shows the product of the first builder the Cook knew.
openPizzaBuilder_stale ==
    IF lastCall.prevBuilder \in Builders THEN lastCall.prevBuilder ELSE m_pizzaBuilder

\* The builder Cook::openPizza calls getPizza on.
openPizzaBuilder == m_pizzaBuilder

\* Cook::openPizza: m_pizzaBuilder->getPizza()->open().  Before the first
\* makePizza the pointer is indeterminate: it may designate any builder or
\* nothing at all; through an empty m_pizza the call reads a null Pizza.
OpenPizza ==
    /\ cookPc = "idle"
    /\ IF m_pizzaBuilder = Indeterminate
       THEN \E pb \in Builders \cup {Wild} :
              IF pb = Wild \/ m_pizza[pb] = NULL
              THEN /\ cookPc' \in {"crashed", "idle"}
                   /\ cookOut' = IF cookPc' = "crashed" THEN cookOut ELSE Garbage
              ELSE /\ cookOut' = open(pizzaHeap, getPizza(pb))
                   /\ cookPc' = cookPc
       ELSE IF getPizza(openPizzaBuilder) = NULL
            THEN /\ cookPc' = "crashed"
                 /\ cookOut' = cookOut
            ELSE /\ cookOut' = open(pizzaHeap, getPizza(openPizzaBuilder))
                 /\ cookPc' = cookPc
    /\ UNCHANGED <<pizzaHeap, m_pizza, m_pizzaBuilder, steps, lastCall>>

BuilderInit ==
    /\ pizzaHeap = <<>>
    /\ m_pizza = [pb \in Builders |-> NULL]
    /\ m_pizzaBuilder = Indeterminate
    /\ cookPc = "idle"
    /\ steps = <<>>
    /\ cookOut = <<>>
    /\ lastCall = [pb |-> Indeterminate, prevBuilder |-> Indeterminate, prevPizza |-> NULL]



(***************************************************************************)
(* FACTORY METHOD DEMO                                                     *)
(***************************************************************************)

\* Capacity of Application::_docs.
DocCap == 10

\* Size of Document::name.
NameCap == 20

\* NewDocument calls of a run: one more than the registry holds.
MaxDocs == 11

\* Calls of a run that pass the overlong name.
MaxLongNames == 1

\* A byte or pointer the program never wrote, or one it cannot rely on.
Unset == -1

\* The names callers pass: "foo" and "bar" as main() does, and one name of
\* NameCap characters ('x'), which with its terminator does not fit the array.
Foo == <<102, 111, 111>>

Bar == <<98, 97, 114>>

LongName == [i \in 1..NameCap |-> 120]

Names == {Foo, Bar, LongName}

\* The characters read back where the program reads memory it does not own.
GarbageName == <<63>>

VARIABLES
    docHeap,      \* every Document ever allocated: its name array and the
                  \* bytes that follow the array
    _index,       \* Application::_index
    _docs,        \* Application::_docs, slots 1..DocCap for _docs[0..DocCap-1]
    docsBeyond,   \* what the program stored at _docs[DocCap], _docs[DocCap+1], ..
    appPc,        \* position of the caller inside Application::NewDocument
    arg,          \* NewDocument's parameter name
    ret,          \* the pointer CreateDocument returned
    callee,       \* the value of _docs[_index++] in line 193
    appOut,       \* the lines printed by the latest call of NewDocument or
                  \* ReportDocs
    passed,       \* history: the names passed to NewDocument, in call order
    created,      \* history: the documents CreateDocument returned, in call order
    callLog,      \* history: what the latest NewDocument call did, in order
    entry         \* history: _index and _docs when the latest call began

appVars ==
    <<docHeap, _index, _docs, docsBeyond, appPc, arg, ret, callee, appOut,
      passed, created, callLog, entry>>

\* The elements of a sequence.
Range(seq) == {seq[i] : i \in 1..Len(seq)}

\* The C string that starts at the first byte of mem: the bytes before the
\* first terminator.
CString(mem) ==
    LET ends == {i \in 1..Len(mem) : mem[i] = 0}
    IN  IF ends = {}
        THEN mem
        ELSE SubSeq(mem, 1, (CHOOSE i \in ends : \A j \in ends : i <= j) - 1)

\* strcpy(dest, src): the bytes of src and a terminator, written from the
\* first byte of dest on, however long dest is.  The result is the whole
\* written range followed by what dest held behind it.
strcpy(dest, src) ==
    LET n == Len(src) + 1
    IN  [i \in 1..(IF n > Len(dest) THEN n ELSE Len(dest)) |->
            IF i < n THEN src[i] ELSE IF i = n THEN 0 ELSE dest[i]]

\* Document::Document(fn): strcpy(name, fn) into the uninitialised name array.
\* The record keeps the array and separately the bytes written behind it.
Document(fn) ==
    LET mem == strcpy([i \in 1..NameCap |-> Unset], fn)
    IN  [name |-> SubSeq(mem, 1, NameCap), beyond |-> SubSeq(mem, NameCap + 1, Len(mem))]

\* Document::GetName: the pointer to name, read as a C string.
GetName(doc) == CString(doc.name \o doc.beyond)

\* Application::NewDocument(name), entry (line 190).
NewDocument(name) ==
    /\ appPc = "idle"
    /\ Len(passed) < MaxDocs
    /\ name = LongName => Cardinality({i \in 1..Len(passed) : passed[i] = LongName}) < MaxLongNames
    /\ appOut' = <<"Application: NewDocument()">>
    /\ arg' = name
    /\ passed' = Append(passed, name)
    /\ callLog' = <<>>
    /\ entry' = [index |-> _index, docs |-> _docs]
    /\ appPc' = "CreateDocument"
    /\ UNCHANGED <<docHeap, _index, _docs, docsBeyond, ret, callee, created>>

\* MyApplication::CreateDocument(fn): return new MyDocument(fn).  A name of
\* NameCap characters or more makes strcpy write behind the array: the run is
\* aborted, or the bytes land there and stay, or they land and are overwritten.
NewDocument_CreateDocument ==
    /\ appPc = "CreateDocument"
    /\ \E outcome \in {"intact", "clobbered", "abort"} :
         LET doc == Document(arg)
         IN  IF doc.beyond = <<>>
             THEN /\ outcome = "intact"
                  /\ docHeap' = Append(docHeap, doc)
                  /\ appPc' = "store"
             ELSE /\ docHeap' =
                        IF outcome = "intact" THEN Append(docHeap, doc)
                        ELSE IF outcome = "clobbered"
                             THEN Append(docHeap, [doc EXCEPT !.beyond = GarbageName \o <<0>>])
                             ELSE docHeap
                  /\ appPc' = IF outcome = "abort" THEN "crashed" ELSE "store"
    /\ ret' = IF appPc' = "crashed" THEN ret ELSE Len(docHeap) + 1
    /\ created' = IF appPc' = "crashed" THEN created ELSE Append(created, Len(docHeap) + 1)
    /\ callLog' = Append(callLog, <<"CreateDocument", arg>>)
    /\ appOut' = Append(appOut, "   MyApplication: CreateDocument()")
    /\ UNCHANGED <<_index, _docs, docsBeyond, arg, callee, passed, entry>>

\* The slot _docs[i] designates, counted from 0 as the code does: inside the
\* array or behind it.
InRegistry(i) == 0 <= i /\ i < DocCap

\* Line 192: _docs[_index] = <the returned pointer>.  With _index >= DocCap
\* the store goes behind the array: it lands in the memory there or ends the
\* run.
NewDocument_store ==
    /\ appPc = "store"
    /\ IF InRegistry(_index)
       THEN /\ _docs' = [_docs EXCEPT ![_index + 1] = ret]
            /\ docsBeyond' = docsBeyond
            /\ appPc' = "select"
       ELSE /\ _docs' = _docs
            /\ \E outcome \in {"lands", "crash"} :
                 /\ docsBeyond' = IF outcome = "lands" THEN Append(docsBeyond, ret) ELSE docsBeyond
                 /\ appPc' = IF outcome = "lands" THEN "select" ELSE "crashed"
    /\ callLog' = Append(callLog, <<"store", _index, ret>>)
    /\ UNCHANGED <<docHeap, _index, arg, ret, callee, appOut, passed, created, entry>>

\* The values a load of _docs[i] can yield: the slot's content inside the
\* array; behind it what was stored there or anything else.
Load(i) ==
    IF InRegistry(i)
    THEN {_docs[i + 1]}
    ELSE {Unset} \cup (IF i - DocCap + 1 \in 1..Len(docsBeyond)
                       THEN {docsBeyond[i - DocCap + 1]} ELSE {})

\* Line 193, the postfix expression _docs[_index++]: the pointer is loaded
\* and _index incremented before the body of Open runs.
NewDocument_select ==
    /\ appPc = "select"
    /\ callee' \in Load(_index)
    /\ _index' = _index + 1
    /\ appPc' = "Open"
    /\ callLog' = Append(callLog, <<"_index++", _index + 1>>)
    /\ UNCHANGED <<docHeap, _docs, docsBeyond, arg, ret, appOut, passed, created, entry>>

\* Line 193, the call ->Open(): MyDocument::Open prints a line.  Through a
\* pointer that designates no Document the call ends the run.
NewDocument_Open ==
    /\ appPc = "Open"
    /\ IF callee \in 1..Len(docHeap)
       THEN /\ callLog' = Append(callLog, <<"Open", callee>>)
            /\ appOut' = Append(appOut, "   MyDocument: Open()")
            /\ appPc' = "idle"
       ELSE /\ callLog' = callLog
            /\ appOut' = appOut
            /\ appPc' = "crashed"
    /\ UNCHANGED <<docHeap, _index, _docs, docsBeyond, arg, ret, callee,
                   passed, created, entry>>

\* The name the loop of ReportDocs prints for the pointer p it loaded.
Printed(p) == IF p \in 1..Len(docHeap) THEN GetName(docHeap[p]) ELSE GarbageName

\* Application::ReportDocs: for i in 0.._index-1 print _docs[i]->GetName().
\* Every load behind the array yields what was stored there or anything else;
\* through a pointer that designates no Document the loop prints garbage or
\* ends the run.
ReportDocs ==
    /\ appPc = "idle"
    /\ \E behind \in [DocCap..(_index - 1) -> {Unset} \cup Range(docsBeyond)] :
         LET loaded(i) == IF InRegistry(i) THEN _docs[i + 1] ELSE behind[i]
         IN  /\ \A i \in DocCap..(_index - 1) : behind[i] \in Load(i)
             /\ appOut' = <<"Application: ReportDocs()">>
                              \o [i \in 1.._index |-> <<"   ", Printed(loaded(i - 1))>>]
             /\ appPc' \in IF \A i \in 0..(_index - 1) : loaded(i) # Unset
                           THEN {"idle"} ELSE {"idle", "crashed"}
    /\ UNCHANGED <<docHeap, _index, _docs, docsBeyond, arg, ret, callee,
                   passed, created, callLog, entry>>

\* Application::Application and MyApplication::MyApplication: _index(0), the
\* array is left uninitialised.
AppInit ==
    /\ docHeap = <<>>
    /\ _index = 0
    /\ _docs = [i \in 1..DocCap |-> Unset]
    /\ docsBeyond = <<>>
    /\ appPc = "idle"
    /\ arg = <<>>
    /\ ret = Unset
    /\ callee = Unset
    /\ appOut = <<>>
    /\ passed = <<>>
    /\ created = <<>>
    /\ callLog = <<>>
    /\ entry = [index |-> 0, docs |-> [i \in 1..DocCap |-> Unset]]


(***************************************************************************)
(* ABSTRACT FACTORY DEMO                                                   *)
(***************************************************************************)

\* Shapes constructed over a run.
MaxShapes == 6

\* The largest value of int, the type of Shape::total_ and Shape::id_.
IntMax == 2147483647

\* The two concrete factories.  A factory has no members: an instance is
\* told apart only by its class.
FactoryClasses == {"SimpleShapeFactory", "RobustShapeFactory"}

VARIABLES
    total_,       \* Shape::total_
    shapeHeap,    \* every Shape ever constructed, in construction order
    factory,      \* main's factory pointer (the class of the object it designates)
    shapes,       \* main's array Shape* shapes[3], slots 1..3 for shapes[0..2]
    mainPc,       \* position of main() in lines 356..366
    drawOut,      \* the lines printed by main's draw loop
    heapAtStart   \* history: the number of shapes that existed when main
                  \* obtained its factory

shapeVars == <<total_, shapeHeap, factory, shapes, mainPc, drawOut, heapAtStart>>

\* Mutation: the constructor forgets to advance the counter.
Shape_noIncrement(class) ==
    /\ shapeHeap' = Append(shapeHeap, [class |-> class, id_ |-> total_])
    /\ total_' = total_

\* Shape::Shape() run for a new object of the given concrete class:
\* id_ = total_++.  At IntMax the increment overflows a signed int: the
\* counter wraps or keeps its value.
Shape(class) ==
    /\ shapeHeap' = Append(shapeHeap, [class |-> class, id_ |-> total_])
    /\ total_' \in IF total_ < IntMax THEN {total_ + 1} ELSE {-IntMax - 1, total_}

\* The pointer a new-expression evaluated in this step returns.
new == Len(shapeHeap) + 1

\* Circle::draw, Square::draw, Ellipse::draw, Rectangle::draw on object p.
draw(p) ==
    LET word == CASE shapeHeap[p].class = "Circle" -> "circle "
                  [] shapeHeap[p].class = "Square" -> "square "
                  [] shapeHeap[p].class = "Ellipse" -> "ellipse "
                  [] shapeHeap[p].class = "Rectangle" -> "rectangle "
    IN  <<word, shapeHeap[p].id_, ": draw">>

SimpleShapeFactory_createCurvedInstance == Shape("Circle")

SimpleShapeFactory_createStraightInstance == Shape("Square")

RobustShapeFactory_createCurvedInstance == Shape("Ellipse")

\* Mutation: the robust factory returns the simple family's straight shape.
RobustShapeFactory_createStraightInstance_square == Shape("Square")

RobustShapeFactory_createStraightInstance == Shape("Rectangle")

\* Virtual dispatch of Factory::createCurvedInstance on a factory of class f.
createCurvedInstance(f) ==
    IF f = "SimpleShapeFactory"
    THEN SimpleShapeFactory_createCurvedInstance
    ELSE RobustShapeFactory_createCurvedInstance

\* Virtual dispatch of Factory::createStraightInstance on a factory of class f.
createStraightInstance(f) ==
    IF f = "SimpleShapeFactory"
    THEN SimpleShapeFactory_createStraightInstance
    ELSE RobustShapeFactory_createStraightInstance

\* Some other caller asks a factory for a curved shape and keeps it to itself.
CreateCurved(f) ==
    /\ Len(shapeHeap) < MaxShapes
    /\ createCurvedInstance(f)
    /\ UNCHANGED <<factory, shapes, mainPc, drawOut, heapAtStart>>

\* Some other caller asks a factory for a straight shape.
CreateStraight(f) ==
    /\ Len(shapeHeap) < MaxShapes
    /\ createStraightInstance(f)
    /\ UNCHANGED <<factory, shapes, mainPc, drawOut, heapAtStart>>

\* main, line 356 (or its alternative, line 357): factory = new <f>.
Main_newFactory(f) ==
    /\ mainPc = "newFactory"
    /\ factory' = f
    /\ heapAtStart' = Len(shapeHeap)
    /\ mainPc' = "shapes0"
    /\ UNCHANGED <<total_, shapeHeap, shapes, drawOut>>

\* main, line 360: shapes[0] = factory->createCurvedInstance().
Main_shapes0 ==
    /\ mainPc = "shapes0"
    /\ Len(shapeHeap) < MaxShapes
    /\ createCurvedInstance(factory)
    /\ shapes' = [shapes EXCEPT ![1] = new]
    /\ mainPc' = "shapes1"
    /\ UNCHANGED <<factory, drawOut, heapAtStart>>

\* main, line 361: shapes[1] = factory->createStraightInstance().
Main_shapes1 ==
    /\ mainPc = "shapes1"
    /\ Len(shapeHeap) < MaxShapes
    /\ createStraightInstance(factory)
    /\ shapes' = [shapes EXCEPT ![2] = new]
    /\ mainPc' = "shapes2"
    /\ UNCHANGED <<factory, drawOut, heapAtStart>>

\* main, line 362: shapes[2] = factory->createCurvedInstance().
Main_shapes2 ==
    /\ mainPc = "shapes2"
    /\ Len(shapeHeap) < MaxShapes
    /\ createCurvedInstance(factory)
    /\ shapes' = [shapes EXCEPT ![3] = new]
    /\ mainPc' = "draw"
    /\ UNCHANGED <<factory, drawOut, heapAtStart>>

\* main, lines 364..366: one turn of the loop, shapes[i]->draw(), i being the
\* number of lines drawn so far.
Main_draw ==
    /\ mainPc = "draw"
    /\ drawOut' = Append(drawOut, draw(shapes[Len(drawOut) + 1]))
    /\ mainPc' = IF Len(drawOut) + 1 < 3 THEN "draw" ELSE "done"
    /\ UNCHANGED <<total_, shapeHeap, factory, shapes, heapAtStart>>

\* int Shape::total_ = 0; main's locals are not yet initialised.
ShapeInit ==
    /\ total_ = 0
    /\ shapeHeap = <<>>
    /\ factory = Indeterminate
    /\ shapes = [k \in 1..3 |-> Unset]
    /\ mainPc = "newFactory"
    /\ drawOut = <<>>
    /\ heapAtStart = 0

vars == <<builderVars, appVars, shapeVars>>

Init == BuilderInit /\ AppInit /\ ShapeInit

\* The Builder demo: any caller of Cook, while the other demos rest.
BuilderNext ==
    \/ \E pb \in Builders : MakePizza(pb) /\ UNCHANGED <<appVars, shapeVars>>
    \/ MakePizza_create /\ UNCHANGED <<appVars, shapeVars>>
    \/ MakePizza_dough /\ UNCHANGED <<appVars, shapeVars>>
    \/ MakePizza_sauce /\ UNCHANGED <<appVars, shapeVars>>
    \/ MakePizza_topping /\ UNCHANGED <<appVars, shapeVars>>
    \/ OpenPizza /\ UNCHANGED <<appVars, shapeVars>>

SpecBuilder == Init /\ [][BuilderNext]_vars

\* The Factory Method demo: any caller of one Application.
AppNext ==
    \/ \E name \in Names : NewDocument(name) /\ UNCHANGED <<builderVars, shapeVars>>
    \/ NewDocument_CreateDocument /\ UNCHANGED <<builderVars, shapeVars>>
    \/ NewDocument_store /\ UNCHANGED <<builderVars, shapeVars>>
    \/ NewDocument_select /\ UNCHANGED <<builderVars, shapeVars>>
    \/ NewDocument_Open /\ UNCHANGED <<builderVars, shapeVars>>
    \/ ReportDocs /\ UNCHANGED <<builderVars, shapeVars>>

SpecFactoryMethod == Init /\ [][AppNext]_vars

\* The Abstract Factory demo: main() and any other caller of the factories.
ShapeNext ==
    \/ \E f \in FactoryClasses : CreateCurved(f) /\ UNCHANGED <<builderVars, appVars>>
    \/ \E f \in FactoryClasses : CreateStraight(f) /\ UNCHANGED <<builderVars, appVars>>
    \/ \E f \in FactoryClasses : Main_newFactory(f) /\ UNCHANGED <<builderVars, appVars>>
    \/ Main_shapes0 /\ UNCHANGED <<builderVars, appVars>>
    \/ Main_shapes1 /\ UNCHANGED <<builderVars, appVars>>
    \/ Main_shapes2 /\ UNCHANGED <<builderVars, appVars>>
    \/ Main_draw /\ UNCHANGED <<builderVars, appVars>>

SpecAbstractFactory == Init /\ [][ShapeNext]_vars

(***************************************************************************)
(* Properties of the Builder demo.                                         *)
(***************************************************************************)

\* The three attributes of heap object p.
Attributes(p) == <<pizzaHeap[p].m_dough, pizzaHeap[p].m_sauce, pizzaHeap[p].m_topping>>

\* The attribute values each builder variant is documented to produce.
ExpectedAttributes(class) ==
    IF class = "HawaiianPizzaBuilder"
    THEN <<"cross", "mild", "ham+pineapple">>
    ELSE <<"pan baked", "hot", "pepperoni+salami">>

\* makePizza is running on builder pb.
Building(pb) == cookPc # "idle" /\ m_pizzaBuilder = pb

\* C1: whenever no makePizza call is in progress on builder b, the product
\* b.getPizza() returns (if b was ever built) carries exactly the three
\* literals of b's variant, whatever calls came before or after on any
\* builder.
C1_BuiltPizzaHasVariantLiterals ==
    \A pb \in Builders :
        (getPizza(pb) # NULL /\ ~Building(pb))
            => Attributes(getPizza(pb)) = ExpectedAttributes(ClassOf(pb))

\* C1 witness: both variants are complete after several earlier builds.
C1_Witness ==
    /\ cookPc = "idle"
    /\ Len(pizzaHeap) >= 3
    /\ getPizza("hawaiianPizzaBuilder") # NULL
    /\ getPizza("spicyPizzaBuilder") # NULL
    /\ Attributes(getPizza("spicyPizzaBuilder")) = <<"pan baked", "hot", "pepperoni+salami">>
    /\ Attributes(getPizza("hawaiianPizzaBuilder")) = <<"cross", "mild", "ham+pineapple">>

\* The latest completed makePizza call was on the builder of the call before
\* it, which held a product then.
BuiltTwiceInSuccession ==
    /\ cookPc = "idle"
    /\ lastCall.pb \in Builders
    /\ lastCall.prevBuilder = lastCall.pb
    /\ lastCall.prevPizza # NULL

\* C7: after two makePizza calls in succession on the same builder the second
\* product is a fresh live object distinct from the first, the first has been
\* destroyed, both carry the same attribute values, and at no time do two
\* builders hold the same product or a destroyed one.
C7_TwiceYieldsIndependentEqualProducts ==
    /\ BuiltTwiceInSuccession =>
          /\ getPizza(lastCall.pb) # lastCall.prevPizza
          /\ getPizza(lastCall.pb) # NULL
          /\ pizzaHeap[getPizza(lastCall.pb)].live
          /\ ~pizzaHeap[lastCall.prevPizza].live
          /\ Attributes(getPizza(lastCall.pb)) = Attributes(lastCall.prevPizza)
    /\ \A b1 \in Builders :
          getPizza(b1) # NULL =>
              /\ pizzaHeap[getPizza(b1)].live
              /\ \A b2 \in Builders \ {b1} : getPizza(b2) # getPizza(b1)

\* C7 witness: a second build on the same builder has completed.
C7_Witness ==
    /\ BuiltTwiceInSuccession
    /\ getPizza(lastCall.pb) = lastCall.prevPizza + 1

\* The fixed order of the builder steps in makePizza.
StepOrder == <<"createNewPizzaProduct", "buildDough", "buildSauce", "buildTopping">>

\* C9: the steps a makePizza call has run are always an initial part of
\* create, dough, sauce, topping and are all four once it has completed; a
\* part-setting step is only ever about to run on a builder that holds a
\* live product, so the run never ends inside a makePizza call; and right
\* after the create step that product has three empty attributes.
C9_StepsInFixedOrderOnFreshProduct ==
    /\ cookPc = "crashed" => steps \in {<<>>, StepOrder}
    /\ Len(steps) <= Len(StepOrder)
    /\ \A i \in 1..Len(steps) : steps[i] = StepOrder[i]
    /\ (cookPc = "idle" /\ lastCall.pb \in Builders) => steps = StepOrder
    /\ cookPc \in {"buildDough", "buildSauce", "buildTopping"} =>
          /\ getPizza(m_pizzaBuilder) # NULL
          /\ pizzaHeap[getPizza(m_pizzaBuilder)].live
    /\ steps = <<"createNewPizzaProduct">> =>
          Attributes(getPizza(m_pizzaBuilder)) = <<"", "", "">>

\* C9 witness: a rebuild of a builder that already held a finished product
\* has just run its create step.
C9_Witness ==
    /\ steps = <<"createNewPizzaProduct">>
    /\ lastCall.prevPizza # NULL
    /\ cookPc = "buildDough"

\* C10: no step of makePizza(b) changes which product another builder holds
\* or the attributes of that product, and openPizza, once a makePizza call
\* has been made, prints the attributes of the product held by the builder
\* passed to the latest makePizza call.
C10_MakePizzaFrameAndOpenLatest ==
    [][/\ (cookPc # "idle" \/ cookPc' # "idle") =>
            \A o \in Builders \ {lastCall'.pb} :
                /\ m_pizza'[o] = m_pizza[o]
                /\ m_pizza[o] # NULL => pizzaHeap'[m_pizza[o]] = pizzaHeap[m_pizza[o]]
       /\ (OpenPizza /\ lastCall.pb \in Builders) =>
            /\ cookPc' = "idle"
            /\ cookOut' = <<"Pizza with ", pizzaHeap[m_pizza[lastCall.pb]].m_dough,
                            " dough, ", pizzaHeap[m_pizza[lastCall.pb]].m_sauce,
                            " sauce and ", pizzaHeap[m_pizza[lastCall.pb]].m_topping,
                            " topping. Mmm.">>
      ]_vars

\* C10 witness: after Hawaiian then Spicy, openPizza has shown the spicy
\* product while the Hawaiian one is still held, unchanged.
C10_Witness ==
    /\ cookPc = "idle"
    /\ lastCall.pb = "spicyPizzaBuilder"
    /\ lastCall.prevBuilder = "hawaiianPizzaBuilder"
    /\ cookOut = <<"Pizza with ", "pan baked", " dough, ", "hot", " sauce and ",
                   "pepperoni+salami", " topping. Mmm.">>
    /\ Attributes(getPizza("hawaiianPizzaBuilder")) = <<"cross", "mild", "ham+pineapple">>

(***************************************************************************)
(* Properties of the Factory Method demo.                                  *)
(***************************************************************************)

\* C2: whenever no NewDocument call is in progress, the registry holds as
\* many documents as NewDocument was called (_index = N, all inside the
\* array), slot i holds the document the i-th call created, and that
\* document's name reads back as the name passed to the i-th call.
C2_RegistryHoldsEveryCallInOrder ==
    appPc = "idle" =>
        /\ _index = Len(passed)
        /\ Len(created) = Len(passed)
        /\ _index <= DocCap
        /\ \A i \in 1..Len(passed) :
              /\ _docs[i] = created[i]
              /\ GetName(docHeap[created[i]]) = passed[i]

\* The stores the latest NewDocument call made into _docs.
Stores == {e \in Range(callLog) : e[1] = "store"}

\* C3: _index always lies in 0..DocCap and no store is ever made to a slot
\* outside _docs[0..DocCap-1].
C3_IndexAndStoresWithinCapacity ==
    /\ 0 <= _index
    /\ _index <= DocCap
    /\ docsBeyond = <<>>
    /\ \A e \in Stores : InRegistry(e[2])

\* What a call did, without the index increment.
CallEvents == SelectSeq(callLog, LAMBDA e : e[1] # "_index++")

\* C6: a NewDocument(name) call that has returned did these, in this order
\* and once each: called CreateDocument(name), stored the returned document
\* in the next free slot of the registry, called Open on that document; it
\* raised _index by exactly one and left every earlier slot as it was.
C6_NewDocumentCreatesStoresOpens ==
    (appPc = "idle" /\ passed # <<>>) =>
        /\ CallEvents = << <<"CreateDocument", passed[Len(passed)]>>,
                           <<"store", entry.index, created[Len(created)]>>,
                           <<"Open", created[Len(created)]>> >>
        /\ _index = entry.index + 1
        /\ InRegistry(entry.index)
        /\ _docs[entry.index + 1] = created[Len(created)]
        /\ \A i \in 1..DocCap : i # entry.index + 1 => _docs[i] = entry.docs[i]

\* C8: ReportDocs returns having printed its banner and then exactly the
\* names of the documents created so far, once each, in creation order, and
\* changes neither _index nor the registry nor any document.
C8_ReportDocsPrintsRegisteredNamesInOrder ==
    [][ReportDocs =>
          /\ appPc' = "idle"
          /\ appOut' = <<"Application: ReportDocs()">>
                         \o [i \in 1..Len(created) |-> <<"   ", GetName(docHeap[created[i]])>>]
          /\ UNCHANGED <<_index, _docs, docHeap>>
      ]_vars

(***************************************************************************)
(* Properties of the Abstract Factory demo.                                *)
(***************************************************************************)

\* C4: after every step the identifiers of the shapes constructed so far are
\* strictly increasing in construction order (so no two are equal), every
\* shape constructed in the step has an identifier greater than all earlier
\* ones, and Shape::total_ has not decreased.
C4_ShapeIdsUniqueAndIncreasing ==
    [][/\ \A i, j \in 1..Len(shapeHeap') : i < j => shapeHeap'[i].id_ < shapeHeap'[j].id_
       /\ \A i \in 1..Len(shapeHeap) : shapeHeap'[i] = shapeHeap[i]
       /\ Len(shapeHeap') >= Len(shapeHeap)
       /\ total_' >= total_
       /\ \A i \in 1..Len(shapeHeap') : shapeHeap'[i].id_ < total_'
      ]_vars

\* C4 witness: shapes of both factories' families exist, built through
\* curved and straight calls.
C4_Witness ==
    /\ Len(shapeHeap) >= 4
    /\ {shapeHeap[i].class : i \in 1..Len(shapeHeap)} =
          {"Circle", "Square", "Ellipse", "Rectangle"}
    /\ total_ = Len(shapeHeap)

\* The concrete types each factory is documented to return for the calls
\* curved, straight, curved.
ExpectedFamily(f) ==
    IF f = "SimpleShapeFactory"
    THEN <<"Circle", "Square", "Circle">>
    ELSE <<"Ellipse", "Rectangle", "Ellipse">>

\* C5: once main has made its three calls curved, straight, curved on its
\* factory, the three results are three different objects, none of which
\* existed before the calls, of the concrete types of that factory's family,
\* however many shapes existed before.
C5_ThreeCallsYieldFamilyShapes ==
    mainPc \in {"draw", "done"} =>
        /\ \A k \in 1..3 : shapes[k] \in (heapAtStart + 1)..Len(shapeHeap)
        /\ shapes[1] # shapes[2] /\ shapes[2] # shapes[3] /\ shapes[1] # shapes[3]
        /\ [k \in 1..3 |-> shapeHeap[shapes[k]].class] = ExpectedFamily(factory)

\* C5 witness: a robust factory, obtained when shapes already existed, has
\* returned its three shapes.
C5_Witness ==
    /\ mainPc = "done"
    /\ factory = "RobustShapeFactory"
    /\ heapAtStart >= 2
    /\ [k \in 1..3 |-> shapeHeap[shapes[k]].class] = <<"Ellipse", "Rectangle", "Ellipse">>


=============================================================================
